---- MODULE Spec2Model ----
(***************************************************************************)
(* A model of the codegen builder: Scope (src/src/scope.rs), Module        *)
(* (src/src/module.rs) and Import (src/src/import.rs).                     *)
(*                                                                         *)
(* A String is a sequence of one-character strings, an Option<T> is a      *)
(* sequence of length at most one, a Vec<T> is a sequence, and an          *)
(* IndexMap<K, V> is a sequence of [key, value] records in insertion       *)
(* order.  A reference into the tree (&mut Module, &mut Scope) is the      *)
(* sequence of item indices that leads to it from the root scope.          *)
(***************************************************************************)
EXTENDS Integers, Sequences, FiniteSets

VARIABLES
    root,   \* the caller's top-level Scope, with everything it owns
    last,   \* the most recent call: [op, outcome, ret]
    seen    \* history: the visibilities of the imports into the root scope
            \* (SpecHistory) or the type names the caller wrote (SpecKeys),
            \* each once, in the order the caller first used them

vars == <<root, last, seen>>

----------------------------------------------------------------------------
(* Bounds of the model *)

\* items in the whole tree (Spec)
MaxItems == 3
\* import entries in the whole tree (Spec)
MaxTreeImports == 1
\* items in the whole tree (SpecRender)
MaxRenderItems == 3
\* items, import entries, docs, attributes and module visibilities in the
\* whole tree (SpecRender)
MaxRenderParts == 4
\* import entries of the scope (SpecImports)
MaxImports == 3
\* import entries of the scope (SpecHistory)
MaxHistoryImports == 3
\* items in the whole tree (SpecSink)
MaxSinkItems == 2
\* items, import entries, docs, attributes and module visibilities in the
\* whole tree (SpecSink)
MaxSinkParts == 3
\* writes that the sink of a call of Scope::fmt accepts (SpecSink)
MaxRoom == 8

----------------------------------------------------------------------------
(* Strings *)

NL == "\n"
S_pub == <<"p", "u", "b">>
S_crate == <<"c", "r">>
S_a == <<"a">>
S_b == <<"b">>
S_X == <<"X">>
S_Y == <<"Y">>
S_Z == <<"Z">>
S_XZ == <<"X", ":", ":", "Z">>
S_XY == <<"X", ":", ":", "Y">>
S_m == <<"m">>
S_n == <<"n">>
S_r == <<"r">>
S_d == <<"d">>
S_t == <<"t">>

\* the names the callers of the model use
ModNames == {S_m, S_n}
RawVals == {S_r}
DocVals == {S_d}
AttrVals == {S_t}
TreePaths == {S_a}
TreeTys == {S_X}
TreeVis == {S_pub}
Paths == {S_a, S_b}
Tys == {S_X, S_Y, S_Z, S_XZ}
Vis == {S_pub, S_crate}
HistoryTys == {S_X, S_Z}
KeyTys == {S_X, S_XZ, S_XY, S_Y}

None == <<>>
Some(v) == <<v>>
VisOptions == {None} \cup {Some(v) : v \in Vis}

Last(s) == s[Len(s)]

----------------------------------------------------------------------------
(* Import: src/src/import.rs *)

ImportNew == [vis |-> None]

ImportVis(import, vis) == [import EXCEPT !.vis = Some(vis)]

----------------------------------------------------------------------------
(* IndexMap, as scope.rs uses it *)

\* the position of key k in the map, 0 when it is not there
RECURSIVE IndexOfKey(_, _, _)
IndexOfKey(map, k, i) ==
    IF i > Len(map) THEN 0
    ELSE IF map[i].key = k THEN i
    ELSE IndexOfKey(map, k, i + 1)

\* an entry added whether or not the key is there
EntryAppended(map, k, default) == Append(map, [key |-> k, value |-> default])

\* map.entry(k).or_default(): the map afterwards
EntryOrDefault(map, k, default) ==
    IF IndexOfKey(map, k, 1) # 0 THEN map
    ELSE Append(map, [key |-> k, value |-> default])

----------------------------------------------------------------------------
(* Scope: src/src/scope.rs *)

ScopeNew == [docs |-> None, imports |-> <<>>, items |-> <<>>]

ModuleNew(name) ==
    [kind |-> "Module", name |-> name, vis |-> None, docs |-> None,
     scope |-> ScopeNew, attributes |-> <<>>]

ItemRaw(val) == [kind |-> "Raw", val |-> val]

ScopeDoc(scope, docs) == [scope EXCEPT !.docs = Some(docs)]

\* the type name as the caller wrote it, with the "::" and what follows
SplitWhole(s) == s

\* ty.split("::").next(): the text before the first "::"
RECURSIVE SplitFirst(_)
SplitFirst(s) ==
    IF s = <<>> THEN <<>>
    ELSE IF Len(s) >= 2 /\ s[1] = ":" /\ s[2] = ":" THEN <<>>
    ELSE <<Head(s)>> \o SplitFirst(Tail(s))

\* an import that puts a new Import in the place of the one that is there
ScopeImportReset(scope, path, ty) ==
    LET t == SplitFirst(ty)
        m1 == EntryOrDefault(scope.imports, path, <<>>)
        pi == IndexOfKey(m1, path, 1)
        m2 == EntryOrDefault(m1[pi].value, t, ImportNew)
        ti == IndexOfKey(m2, t, 1)
    IN  [scope |-> [scope EXCEPT
                      !.imports = [m1 EXCEPT ![pi].value =
                                      [m2 EXCEPT ![ti].value = ImportNew]]],
         ret |-> <<pi, ti>>]

\* an import that makes the entry of the path and stops there
ScopeImportPathOnly(scope, path, ty) ==
    LET m1 == EntryOrDefault(scope.imports, path, <<>>)
    IN  [scope |-> [scope EXCEPT !.imports = m1],
         ret |-> <<IndexOfKey(m1, path, 1), 0>>]

\* Scope::import: the scope afterwards and the place <<path index, type
\* index>> of the Import the returned reference points to
ScopeImport(scope, path, ty) ==
    LET t == SplitFirst(ty)
        m1 == EntryOrDefault(scope.imports, path, <<>>)
        pi == IndexOfKey(m1, path, 1)
        m2 == EntryOrDefault(m1[pi].value, t, ImportNew)
        ti == IndexOfKey(m2, t, 1)
    IN  [scope |-> [scope EXCEPT !.imports = [m1 EXCEPT ![pi].value = m2]],
         ret |-> <<pi, ti>>]

\* scope.import(path, ty).vis(vis): Import::vis on the returned reference
ScopeImportVis(scope, path, ty, vis) ==
    LET r == ScopeImport(scope, path, ty)
        pi == r.ret[1]
        ti == r.ret[2]
    IN  [scope |-> [r.scope EXCEPT
                      !.imports[pi].value[ti].value = ImportVis(@, vis)],
         ret |-> r.ret]

\* Scope::get_module / get_module_mut: the index of the first module item
\* of that name, 0 for Option::None
RECURSIVE GetModuleFrom(_, _, _)
GetModuleFrom(items, name, i) ==
    IF i > Len(items) THEN 0
    ELSE IF items[i].kind = "Module" /\ items[i].name = name THEN i
    ELSE GetModuleFrom(items, name, i + 1)

GetModule(scope, name) == GetModuleFrom(scope.items, name, 1)

\* push_module without its assertion
ScopePushModuleUnchecked(scope, item) ==
    [scope |-> [scope EXCEPT !.items = Append(@, item)],
     panic |-> FALSE, ret |-> None]

\* Scope::push_module: the assertion, then the push
ScopePushModule(scope, item) ==
    IF GetModule(scope, item.name) # 0
    THEN [scope |-> scope, panic |-> TRUE, ret |-> None]
    ELSE [scope |-> [scope EXCEPT !.items = Append(@, item)],
          panic |-> FALSE, ret |-> None]

\* Scope::new_module: push_module, then the reference to the last item
ScopeNewModule(scope, name) ==
    LET r == ScopePushModule(scope, ModuleNew(name))
    IN  IF r.panic THEN r
        ELSE [r EXCEPT !.ret = Some(Len(r.scope.items))]

\* get_or_new_module without its lookup
ScopeGetOrNewModuleNoLookup(scope, name) == ScopeNewModule(scope, name)

\* Scope::get_or_new_module
ScopeGetOrNewModule(scope, name) ==
    IF GetModule(scope, name) # 0
    THEN [scope |-> scope, panic |-> FALSE, ret |-> Some(GetModule(scope, name))]
    ELSE ScopeNewModule(scope, name)

\* Scope::raw
ScopeRaw(scope, val) == [scope EXCEPT !.items = Append(@, ItemRaw(val))]

----------------------------------------------------------------------------
(* Module: src/src/module.rs *)

ModuleDoc(module, docs) == [module EXCEPT !.docs = Some(docs)]

ModuleVis(module, vis) == [module EXCEPT !.vis = Some(vis)]

ModuleAttr(module, attribute) ==
    [module EXCEPT !.attributes = Append(@, attribute)]

----------------------------------------------------------------------------
(* References into the tree *)

ModuleIndices(scope) ==
    {i \in DOMAIN scope.items : scope.items[i].kind = "Module"}

\* module.scope() along the reference p
RECURSIVE ScopeAt(_, _)
ScopeAt(scope, p) ==
    IF p = <<>> THEN scope
    ELSE ScopeAt(scope.items[Head(p)].scope, Tail(p))

\* the tree after the scope that p refers to was changed to new
RECURSIVE ReplaceAt(_, _, _)
ReplaceAt(scope, p, new) ==
    IF p = <<>> THEN new
    ELSE [scope EXCEPT
            !.items[Head(p)].scope = ReplaceAt(@, Tail(p), new)]

\* every scope of the tree
RECURSIVE ScopePaths(_)
ScopePaths(scope) ==
    {<<>>} \cup
    UNION {{<<i>> \o q : q \in ScopePaths(scope.items[i].scope)} :
           i \in ModuleIndices(scope)}

\* every module of the tree: the reference to its scope
ModulePaths(scope) == ScopePaths(scope) \ {<<>>}

Front(p) == SubSeq(p, 1, Len(p) - 1)

ModuleAt(scope, p) == ScopeAt(scope, Front(p)).items[Last(p)]

ReplaceModuleAt(scope, p, new) ==
    LET parent == ScopeAt(scope, Front(p))
    IN  ReplaceAt(scope, Front(p), [parent EXCEPT !.items[Last(p)] = new])

\* the items of the scope and of everything below it
RECURSIVE NumItems(_)
RECURSIVE NumItemsFrom(_, _)
NumItemsFrom(items, i) ==
    IF i > Len(items) THEN 0
    ELSE 1 + (IF items[i].kind = "Module" THEN NumItems(items[i].scope) ELSE 0)
         + NumItemsFrom(items, i + 1)

NumItems(scope) == NumItemsFrom(scope.items, 1)

\* the entries of an import table
RECURSIVE NumEntries(_, _)
NumEntries(imports, i) ==
    IF i > Len(imports) THEN 0
    ELSE Len(imports[i].value) + NumEntries(imports, i + 1)

\* the import entries of the scope and of everything below it
RECURSIVE NumImports(_)
RECURSIVE NumImportsFrom(_, _)
NumImportsFrom(items, i) ==
    IF i > Len(items) THEN 0
    ELSE (IF items[i].kind = "Module" THEN NumImports(items[i].scope) ELSE 0)
         + NumImportsFrom(items, i + 1)

NumImports(scope) ==
    NumEntries(scope.imports, 1) + NumImportsFrom(scope.items, 1)

\* the docs, attributes and visibilities of the scope and of everything
\* below it
RECURSIVE NumDecor(_)
RECURSIVE NumDecorFrom(_, _)
NumDecorFrom(items, i) ==
    IF i > Len(items) THEN 0
    ELSE (IF items[i].kind = "Module"
          THEN Len(items[i].docs) + Len(items[i].vis)
               + Len(items[i].attributes) + NumDecor(items[i].scope)
          ELSE 0)
         + NumDecorFrom(items, i + 1)

NumDecor(scope) == Len(scope.docs) + NumDecorFrom(scope.items, 1)

----------------------------------------------------------------------------
(* Formatter: the text sink with its indentation level *)

IndentUnit == 4

\* a formatter on a sink: the text written, the indentation level, the
\* writes the sink still accepts (None: a String, which accepts all), whether
\* a write has failed, and the writes attempted after a failed one
FormatterOn(room) ==
    [dst |-> <<>>, level |-> 0, room |-> room, err |-> FALSE, late |-> 0]

FormatterNew == FormatterOn(None)

IsStartOfLine(f) == f.dst = <<>> \/ Last(f.dst) = NL

Spaces(n) == [i \in 1..n |-> " "]

\* the characters of s from the i-th on, each line that begins prefixed by
\* the indentation
RECURSIVE Indented(_, _, _, _)
Indented(s, i, start, indentation) ==
    IF i > Len(s) THEN <<>>
    ELSE (IF start THEN indentation ELSE <<>>) \o <<s[i]>>
         \o Indented(s, i + 1, s[i] = NL, indentation)

\* write!(fmt, ..) of the text s: every line that begins is prefixed by
\* the indentation of the current level
Write(f, s) ==
    IF f.err THEN [f EXCEPT !.late = @ + 1]
    ELSE IF f.room = Some(0) THEN [f EXCEPT !.err = TRUE]
    ELSE [f EXCEPT !.dst = @ \o Indented(s, 1, IsStartOfLine(f),
                                         Spaces(f.level * IndentUnit)),
                   !.room = IF @ = None THEN @ ELSE Some(@[1] - 1)]

\* a write that comes after the ? of the write before it: it is reached
\* only when nothing has failed
WriteNext(f, s) == IF f.err THEN f ELSE Write(f, s)

\* Formatter::block, before its body: the opening brace, and the level is
\* one deeper
BlockEnter(f) ==
    LET f2 == WriteNext(IF IsStartOfLine(f) THEN f ELSE Write(f, <<" ">>),
                        <<"{", NL>>)
    IN  IF f2.err THEN f2 ELSE [f2 EXCEPT !.level = @ + 1]

\* Formatter::block, after its body: the level is the outer one again,
\* also when the body failed, and after a body that did not fail the closing
\* brace is on a line of its own
BlockExit(f) == WriteNext([f EXCEPT !.level = @ - 1], <<"}", NL>>)

\* Docs::fmt: the documentation as a doc comment line
DocsFmt(f, docs) == Write(f, <<"/", "/", "/", " ">> \o docs \o <<NL>>)

----------------------------------------------------------------------------
(* Scope::fmt_imports: src/src/scope.rs *)

Contains(seq, x) == \E i \in DOMAIN seq : seq[i] = x

\* the collection with a new visibility put first
RECURSIVE CollectVisTysFront(_, _, _)
CollectVisTysFront(tys, i, visibilities) ==
    IF i > Len(tys) THEN visibilities
    ELSE CollectVisTysFront(tys, i + 1,
            IF Contains(visibilities, tys[i].value.vis) THEN visibilities
            ELSE <<tys[i].value.vis>> \o visibilities)

\* the inner loop of the collection of the visibilities
RECURSIVE CollectVisTys(_, _, _)
CollectVisTys(tys, i, visibilities) ==
    IF i > Len(tys) THEN visibilities
    ELSE CollectVisTys(tys, i + 1,
            IF Contains(visibilities, tys[i].value.vis) THEN visibilities
            ELSE Append(visibilities, tys[i].value.vis))

\* the outer loop of the collection of the visibilities
RECURSIVE CollectVis(_, _, _)
CollectVis(imports, p, visibilities) ==
    IF p > Len(imports) THEN visibilities
    ELSE CollectVis(imports, p + 1,
            CollectVisTys(imports[p].value, 1, visibilities))

\* tys of one path under one visibility
RECURSIVE SelectTys(_, _, _)
SelectTys(tys, vis, i) ==
    IF i > Len(tys) THEN <<>>
    ELSE (IF tys[i].value.vis = vis THEN <<tys[i].key>> ELSE <<>>)
         \o SelectTys(tys, vis, i + 1)

\* the type names of the braced form
RECURSIVE WriteTys(_, _, _)
WriteTys(f, tys, i) ==
    IF f.err \/ i > Len(tys) THEN f
    ELSE WriteTys(WriteNext(IF i # 1 THEN Write(f, <<",", " ">>) ELSE f,
                            tys[i]),
                  tys, i + 1)

\* the statement with the braces around a single type too
FmtUseBraces(f, vis, path, tys) ==
    IF tys = <<>> THEN f
    ELSE LET f1 == IF vis # None THEN Write(f, vis[1] \o <<" ">>) ELSE f
             f2 == Write(f1, <<"u", "s", "e", " ">> \o path \o <<":", ":">>)
         IN  Write(WriteTys(Write(f2, <<"{">>), tys, 1), <<"}", ";", NL>>)

\* the statement of one path under one visibility, if it has types
FmtUse(f, vis, path, tys) ==
    IF f.err \/ tys = <<>> THEN f
    ELSE LET f1 == IF vis # None THEN Write(f, vis[1] \o <<" ">>) ELSE f
             f2 == WriteNext(f1, <<"u", "s", "e", " ">> \o path \o <<":", ":">>)
         IN  IF Len(tys) > 1
             THEN WriteNext(WriteTys(WriteNext(f2, <<"{">>), tys, 1),
                            <<"}", ";", NL>>)
             ELSE IF Len(tys) = 1 THEN WriteNext(f2, tys[1] \o <<";", NL>>)
             ELSE f2

\* the loop over the paths, for one visibility
RECURSIVE FmtPaths(_, _, _, _)
FmtPaths(f, imports, vis, p) ==
    IF f.err \/ p > Len(imports) THEN f
    ELSE FmtPaths(FmtUse(f, vis, imports[p].key,
                         SelectTys(imports[p].value, vis, 1)),
                  imports, vis, p + 1)

\* the loop over the visibilities
RECURSIVE FmtVisibilities(_, _, _, _)
FmtVisibilities(f, imports, visibilities, v) ==
    IF f.err \/ v > Len(visibilities) THEN f
    ELSE FmtVisibilities(FmtPaths(f, imports, visibilities[v], 1),
                         imports, visibilities, v + 1)

FmtImports(f, scope) ==
    FmtVisibilities(f, scope.imports, CollectVis(scope.imports, 1, <<>>), 1)

----------------------------------------------------------------------------
(* Scope::fmt, Module::fmt, Scope::to_string *)

RECURSIVE ScopeFmt(_, _)
RECURSIVE ModuleFmt(_, _)
RECURSIVE FmtItems(_, _, _)

\* the attributes of a module, one line each
RECURSIVE WriteAttrs(_, _, _)
WriteAttrs(f, attributes, i) ==
    IF f.err \/ i > Len(attributes) THEN f
    ELSE WriteAttrs(Write(f, <<"#", "[">> \o attributes[i] \o <<"]", " ", NL>>),
                    attributes, i + 1)

\* a module whose body is written at the level of its header
ModuleFmtFlat(f, module) ==
    LET f1 == IF module.docs # None THEN DocsFmt(f, module.docs[1]) ELSE f
        f2 == WriteAttrs(f1, module.attributes, 1)
        f3 == IF module.vis # None THEN Write(f2, module.vis[1] \o <<" ">>)
              ELSE f2
        f4 == Write(f3, <<"m", "o", "d", " ">> \o module.name \o <<" ", "{", NL>>)
    IN  Write(ScopeFmt(f4, module.scope), <<"}", NL>>)

ModuleFmt(f, module) ==
    LET f1 == IF module.docs # None THEN DocsFmt(f, module.docs[1]) ELSE f
        f2 == WriteAttrs(f1, module.attributes, 1)
        f3 == IF module.vis # None
              THEN WriteNext(f2, module.vis[1] \o <<" ">>)
              ELSE f2
        f4 == WriteNext(f3, <<"m", "o", "d", " ">> \o module.name)
        f5 == IF f4.err THEN f4 ELSE BlockEnter(f4)
    IN  IF f5.err THEN f5 ELSE BlockExit(ScopeFmt(f5, module.scope))

\* the loop with an empty line before the first item too
RECURSIVE FmtItemsLeadingLine(_, _, _)
FmtItemsLeadingLine(f, items, i) ==
    IF i > Len(items) THEN f
    ELSE LET f1 == Write(f, <<NL>>)
             f2 == IF items[i].kind = "Module" THEN ModuleFmt(f1, items[i])
                   ELSE Write(f1, items[i].val \o <<NL>>)
         IN  FmtItemsLeadingLine(f2, items, i + 1)

\* the loop of Scope::fmt that goes on after a write has failed
RECURSIVE FmtItemsUnchecked(_, _, _)
FmtItemsUnchecked(f, items, i) ==
    IF i > Len(items) THEN f
    ELSE LET f1 == IF i # 1 THEN Write(f, <<NL>>) ELSE f
             f2 == IF items[i].kind = "Module" THEN ModuleFmt(f1, items[i])
                   ELSE Write(f1, items[i].val \o <<NL>>)
         IN  FmtItemsUnchecked(f2, items, i + 1)

\* one item of the loop of Scope::fmt, then the rest
FmtItems(f, items, i) ==
    IF f.err \/ i > Len(items) THEN f
    ELSE LET f1 == IF i # 1 THEN Write(f, <<NL>>) ELSE f
             f2 == IF f1.err THEN f1
                   ELSE IF items[i].kind = "Module" THEN ModuleFmt(f1, items[i])
                   ELSE Write(f1, items[i].val \o <<NL>>)
         IN  FmtItems(f2, items, i + 1)

ScopeFmt(f, scope) ==
    LET f1 == IF scope.docs # None THEN DocsFmt(f, scope.docs[1]) ELSE f
        f2 == FmtImports(f1, scope)
        f3 == IF scope.imports # <<>> THEN WriteNext(f2, <<NL>>) ELSE f2
    IN  FmtItems(f3, scope.items, 1)

\* to_string without the removal of the trailing newline
ScopeToStringUntrimmed(scope) == ScopeFmt(FormatterNew, scope).dst

ScopeToString(scope) ==
    LET ret == ScopeFmt(FormatterNew, scope).dst
    IN  IF ret # <<>> /\ Last(ret) = NL THEN Front(ret) ELSE ret

----------------------------------------------------------------------------
(* The calls of a caller that builds one tree and renders it *)

Init ==
    /\ root = ScopeNew
    /\ last = [op |-> "new", outcome |-> "ok", ret |-> None]
    /\ seen = <<>>

Returned(op, r) ==
    [op |-> op, outcome |-> IF r.panic THEN "panic" ELSE "ok", ret |-> r.ret]

PushModule(at, name) ==
    LET r == ScopePushModule(ScopeAt(root, at), ModuleNew(name))
    IN  /\ root' = ReplaceAt(root, at, r.scope)
        /\ last' = Returned("push_module", r)

NewModule(at, name) ==
    LET r == ScopeNewModule(ScopeAt(root, at), name)
    IN  /\ root' = ReplaceAt(root, at, r.scope)
        /\ last' = Returned("new_module", r)

GetOrNewModule(at, name) ==
    LET r == ScopeGetOrNewModule(ScopeAt(root, at), name)
    IN  /\ root' = ReplaceAt(root, at, r.scope)
        /\ last' = Returned("get_or_new_module", r)

Raw(at, val) ==
    /\ root' = ReplaceAt(root, at, ScopeRaw(ScopeAt(root, at), val))
    /\ last' = [op |-> "raw", outcome |-> "ok", ret |-> None]

\* scope.import(path, ty)
Import(at, path, ty) ==
    LET r == ScopeImport(ScopeAt(root, at), path, ty)
    IN  /\ root' = ReplaceAt(root, at, r.scope)
        /\ last' = [op |-> "import", outcome |-> "ok", ret |-> r.ret]

\* scope.import(path, ty).vis(vis)
ImportWithVis(at, path, ty, vis) ==
    LET r == ScopeImportVis(ScopeAt(root, at), path, ty, vis)
    IN  /\ root' = ReplaceAt(root, at, r.scope)
        /\ last' = [op |-> "import_vis", outcome |-> "ok", ret |-> r.ret]

Doc(at, docs) ==
    /\ root' = ReplaceAt(root, at, ScopeDoc(ScopeAt(root, at), docs))
    /\ last' = [op |-> "doc", outcome |-> "ok", ret |-> None]

SetModuleDoc(mp, docs) ==
    /\ root' = ReplaceModuleAt(root, mp, ModuleDoc(ModuleAt(root, mp), docs))
    /\ last' = [op |-> "module_doc", outcome |-> "ok", ret |-> None]

SetModuleVis(mp, vis) ==
    /\ root' = ReplaceModuleAt(root, mp, ModuleVis(ModuleAt(root, mp), vis))
    /\ last' = [op |-> "module_vis", outcome |-> "ok", ret |-> None]

AddModuleAttr(mp, attribute) ==
    /\ root' = ReplaceModuleAt(root, mp, ModuleAttr(ModuleAt(root, mp), attribute))
    /\ last' = [op |-> "module_attr", outcome |-> "ok", ret |-> None]

\* a rendering that takes the imports out of the scope it renders
RenderDraining ==
    /\ root' = [root EXCEPT !.imports = <<>>]
    /\ last' = [op |-> "to_string", outcome |-> "ok", ret |-> ScopeToString(root)]

\* root.to_string()
Render ==
    /\ root' = root
    /\ last' = [op |-> "to_string", outcome |-> "ok", ret |-> ScopeToString(root)]

\* root.fmt(&mut Formatter) on a sink that accepts room writes
Fmt(room) ==
    LET f == ScopeFmt(FormatterOn(Some(room)), root)
    IN  /\ root' = root
        /\ last' = [op |-> "fmt", outcome |-> IF f.err THEN "err" ELSE "ok",
                    ret |-> f]

\* a caller that builds the tree: modules, raw items and imports, in every
\* scope of it
Next ==
    \/ /\ NumItems(root) < MaxItems
       /\ \E at \in ScopePaths(root) :
             \/ \E name \in ModNames : PushModule(at, name)
             \/ \E name \in ModNames : NewModule(at, name)
             \/ \E name \in ModNames : GetOrNewModule(at, name)
             \/ \E val \in RawVals : Raw(at, val)
       /\ seen' = seen
    \/ /\ NumImports(root) < MaxTreeImports
       /\ \E at \in ScopePaths(root), path \in TreePaths, ty \in TreeTys :
             \/ Import(at, path, ty)
             \/ \E vis \in TreeVis : ImportWithVis(at, path, ty, vis)
       /\ seen' = seen

Spec == Init /\ [][Next]_vars

\* a caller that imports into one scope and renders it
NextImports ==
    \/ /\ NumImports(root) < MaxImports
       /\ \E path \in Paths, ty \in Tys :
             \/ Import(<<>>, path, ty)
             \/ \E vis \in Vis : ImportWithVis(<<>>, path, ty, vis)
       /\ seen' = seen
    \/ Render /\ seen' = seen

SpecImports == Init /\ [][NextImports]_vars

\* the same caller, with the history of the visibilities it used
ImportOpt(path, ty, vis) ==
    IF vis = None THEN Import(<<>>, path, ty)
    ELSE ImportWithVis(<<>>, path, ty, vis[1])

NextHistory ==
    \/ /\ NumImports(root) < MaxHistoryImports
       /\ \E path \in Paths, ty \in HistoryTys, vis \in VisOptions :
             /\ ImportOpt(path, ty, vis)
             /\ seen' = IF Contains(seen, vis) THEN seen ELSE Append(seen, vis)
    \/ Render /\ seen' = seen

SpecHistory == Init /\ [][NextHistory]_vars

\* a caller that builds a tree of documented, attributed modules and raw
\* items and renders it
NextRender ==
    \/ /\ NumItems(root) < MaxRenderItems
       /\ NumItems(root) + NumImports(root) + NumDecor(root) < MaxRenderParts
       /\ \E at \in ScopePaths(root) :
             \/ \E name \in ModNames : NewModule(at, name)
             \/ \E val \in RawVals : Raw(at, val)
       /\ seen' = seen
    \/ /\ NumItems(root) + NumImports(root) + NumDecor(root) < MaxRenderParts
       /\ \/ \E at \in ScopePaths(root), path \in TreePaths, ty \in TreeTys :
                Import(at, path, ty)
          \/ \E at \in ScopePaths(root), docs \in DocVals : Doc(at, docs)
          \/ \E mp \in ModulePaths(root) :
                \/ \E docs \in DocVals : SetModuleDoc(mp, docs)
                \/ \E vis \in TreeVis : SetModuleVis(mp, vis)
                \/ \E attribute \in AttrVals : AddModuleAttr(mp, attribute)
       /\ seen' = seen
    \/ Render /\ seen' = seen

SpecRender == Init /\ [][NextRender]_vars

\* a caller that imports type names with and without a "::" tail from one
\* path and renders the scope, with the history of the type names it wrote
NextKeys ==
    \/ \E path \in TreePaths, ty \in KeyTys, vis \in {None} \cup {Some(v) : v \in TreeVis} :
          /\ ImportOpt(path, ty, vis)
          /\ seen' = IF Contains(seen, ty) THEN seen ELSE Append(seen, ty)
    \/ Render /\ seen' = seen

SpecKeys == Init /\ [][NextKeys]_vars

\* a caller that builds a tree and renders it, into a String or into a sink
\* that fails after some writes
NextSink ==
    \/ /\ NumItems(root) < MaxSinkItems
       /\ NumItems(root) + NumImports(root) + NumDecor(root) < MaxSinkParts
       /\ \E at \in ScopePaths(root) :
             \/ \E name \in ModNames : NewModule(at, name)
             \/ \E val \in RawVals : Raw(at, val)
       /\ seen' = seen
    \/ /\ NumItems(root) + NumImports(root) + NumDecor(root) < MaxSinkParts
       /\ \/ \E at \in ScopePaths(root), path \in TreePaths, ty \in TreeTys :
                Import(at, path, ty)
          \/ \E at \in ScopePaths(root), docs \in DocVals : Doc(at, docs)
          \/ \E mp \in ModulePaths(root) :
                \/ \E docs \in DocVals : SetModuleDoc(mp, docs)
                \/ \E vis \in TreeVis : SetModuleVis(mp, vis)
                \/ \E attribute \in AttrVals : AddModuleAttr(mp, attribute)
       /\ seen' = seen
    \/ Render /\ seen' = seen
    \/ \E room \in 0..MaxRoom : Fmt(room) /\ seen' = seen

SpecSink == Init /\ [][NextSink]_vars

----------------------------------------------------------------------------
(* The claims *)

\* C1: in every scope of the tree, whatever calls were made and whichever
\* of them failed, no two module items have the same name.
C1_UniqueModuleNames ==
    \A p \in ScopePaths(root) :
        LET items == ScopeAt(root, p).items
        IN  \A i, j \in ModuleIndices(ScopeAt(root, p)) :
                i # j => items[i].name # items[j].name

\* a scope that holds two modules and a raw item beside an import, after a
\* module call that did not fail
C1_Witness ==
    /\ last.op \in {"push_module", "new_module", "get_or_new_module"}
    /\ last.outcome = "ok"
    /\ NumImports(root) > 0
    /\ \E p \in ScopePaths(root) :
          /\ Cardinality(ModuleIndices(ScopeAt(root, p))) = 2
          /\ \E i \in DOMAIN ScopeAt(root, p).items :
                ScopeAt(root, p).items[i].kind = "Raw"

\* C2: for a name that a module of the scope already has, push_module and
\* new_module take the assertion's path and leave the scope as it was, and
\* get_or_new_module does not fail, leaves the items as they were and returns
\* the module that is there; for a name no module of the scope has,
\* get_or_new_module appends exactly one new module of that name and
\* returns it.  Only push_module and new_module ever fail.
C2_DuplicateModule ==
    /\ last.outcome = "panic" => last.op \in {"push_module", "new_module"}
    /\ \A p \in ScopePaths(root), name \in ModNames :
          LET scope == ScopeAt(root, p)
              found == GetModule(scope, name)
              pushed == ScopePushModule(scope, ModuleNew(name))
              new == ScopeNewModule(scope, name)
              got == ScopeGetOrNewModule(scope, name)
          IN  /\ ~got.panic
              /\ got.ret # None
              /\ got.scope.items[got.ret[1]].kind = "Module"
              /\ got.scope.items[got.ret[1]].name = name
              /\ found # 0 =>
                    /\ pushed.panic /\ pushed.scope = scope
                    /\ new.panic /\ new.scope = scope
                    /\ got.scope = scope
                    /\ got.ret = Some(found)
              /\ found = 0 =>
                    /\ got.scope = [scope EXCEPT
                                      !.items = Append(@, ModuleNew(name))]
                    /\ got.ret = Some(Len(scope.items) + 1)
              /\ Len(got.scope.items) = Len(scope.items) + 1 <=> found = 0

\* a push of a duplicate name has just failed, in a scope whose module of
\* that name has items of its own
C2_Witness ==
    /\ last.op = "push_module"
    /\ last.outcome = "panic"
    /\ \E mp \in ModulePaths(root) : ScopeAt(root, mp).items # <<>>

----------------------------------------------------------------------------
(* Reading a rendered text *)

NewLines(text) == {i \in DOMAIN text : text[i] = NL}

\* the place of the k-th newline
NthNewLine(text, k) ==
    CHOOSE i \in NewLines(text) :
        Cardinality({j \in NewLines(text) : j <= i}) = k

\* the lines that a newline ends, without it
TextLines(text) ==
    [k \in 1..Cardinality(NewLines(text)) |->
        SubSeq(text,
               IF k = 1 THEN 1 ELSE NthNewLine(text, k - 1) + 1,
               NthNewLine(text, k) - 1)]

StartsWith(line, prefix) ==
    Len(line) >= Len(prefix) /\ SubSeq(line, 1, Len(prefix)) = prefix

EndsWith(line, suffix) ==
    /\ Len(line) >= Len(suffix)
    /\ SubSeq(line, Len(line) - Len(suffix) + 1, Len(line)) = suffix

S_use == <<"u", "s", "e", " ">>

VisPrefix(vis) == IF vis = None THEN <<>> ELSE vis[1] \o <<" ">>

\* the visibility of a use statement
LineVis(line) ==
    CHOOSE vis \in VisOptions : StartsWith(line, VisPrefix(vis) \o S_use)

\* the type names of path p that are imported under vis, in the order of the
\* table
TysUnder(imports, p, vis) ==
    LET under == SelectSeq(imports[p].value, LAMBDA e : e.value.vis = vis)
    IN  [i \in 1..Len(under) |-> under[i].key]

RECURSIVE CommaJoined(_, _)
CommaJoined(tys, i) ==
    IF i > Len(tys) THEN <<>>
    ELSE (IF i = 1 THEN <<>> ELSE <<",", " ">>) \o tys[i]
         \o CommaJoined(tys, i + 1)

\* the use statement the specification asks for
UseStatement(vis, path, tys) ==
    VisPrefix(vis) \o S_use \o path \o <<":", ":">>
    \o (IF Len(tys) > 1 THEN <<"{">> \o CommaJoined(tys, 1) \o <<"}">>
        ELSE tys[1])
    \o <<";">>

\* imports (a, X), (b, Y) as pub, (a, Z), and their statements
ExampleScope ==
    ScopeImport(
        ScopeImportVis(ScopeImport(ScopeNew, S_a, S_X).scope,
                       S_b, S_Y, S_pub).scope,
        S_a, S_Z).scope

ExampleText ==
    <<"u", "s", "e", " ", "a", ":", ":", "{", "X", ",", " ", "Z", "}", ";", NL,
      "p", "u", "b", " ", "u", "s", "e", " ", "b", ":", ":", "Y", ";", NL>>

\* C3: fmt_imports writes one statement for every visibility and path that
\* have a type in common and none for the others; under one visibility the
\* statements are in the order of the paths, a statement names its types in
\* their order, in braces exactly when they are more than one; the imports
\* (a, X), (b, Y) as pub, (a, Z) give "use a::{X, Z};" and "pub use b::Y;".
C3_UseStatements ==
    LET imports == root.imports
        out == FmtImports(FormatterNew, root).dst
        lines == TextLines(out)
        Pairings == {q \in VisOptions \X (DOMAIN imports) :
                        TysUnder(imports, q[2], q[1]) # <<>>}
        Statement(q) ==
            UseStatement(q[1], imports[q[2]].key, TysUnder(imports, q[2], q[1]))
        Place(q) == CHOOSE k \in DOMAIN lines : lines[k] = Statement(q)
    IN  /\ out # <<>> => Last(out) = NL
        /\ Len(lines) = Cardinality(Pairings)
        /\ \A q \in Pairings :
              Cardinality({k \in DOMAIN lines : lines[k] = Statement(q)}) = 1
        /\ \A q1, q2 \in Pairings :
              q1[1] = q2[1] /\ q1[2] < q2[2] => Place(q1) < Place(q2)
        /\ imports = ExampleScope.imports => out = ExampleText

\* the imports of the example were made and rendered
C3_Witness ==
    /\ last.op = "to_string"
    /\ root = ExampleScope
    /\ last.ret = ExampleText

\* the first entry of the table, path by path and type by type, that has
\* the visibility
FirstUnder(imports, vis) ==
    LET Entries == {e \in (DOMAIN imports) \X (1..MaxHistoryImports) :
                       /\ e[2] <= Len(imports[e[1]].value)
                       /\ imports[e[1]].value[e[2]].value.vis = vis}
    IN  CHOOSE e \in Entries :
            \A d \in Entries :
                e[1] < d[1] \/ (e[1] = d[1] /\ e[2] <= d[2])

EntryBefore(e, d) == e[1] < d[1] \/ (e[1] = d[1] /\ e[2] < d[2])

\* the place of a visibility in the history of the caller's imports
RECURSIVE PlaceIn(_, _, _)
PlaceIn(seq, x, i) ==
    IF i > Len(seq) THEN 0
    ELSE IF seq[i] = x THEN i
    ELSE PlaceIn(seq, x, i + 1)

\* C4, as claimed: the statements of a visibility that the caller used
\* earlier come before those of a visibility the caller first used later.
C4_InsertionOrder ==
    LET lines == TextLines(FmtImports(FormatterNew, root).dst)
    IN  \A i, j \in DOMAIN lines :
            i < j =>
                \/ LineVis(lines[i]) = LineVis(lines[j])
                \/ PlaceIn(seen, LineVis(lines[i]), 1)
                     < PlaceIn(seen, LineVis(lines[j]), 1)

\* C4, amended: the statements of one visibility are together, and the
\* visibilities follow each other in the order in which the table, read
\* path by path and within a path type by type, first shows them.
C4_TableOrder ==
    LET lines == TextLines(FmtImports(FormatterNew, root).dst)
    IN  \A i, j \in DOMAIN lines :
            i < j =>
                \/ LineVis(lines[i]) = LineVis(lines[j])
                \/ EntryBefore(FirstUnder(root.imports, LineVis(lines[i])),
                               FirstUnder(root.imports, LineVis(lines[j])))

\* three visibilities were rendered, in an order that is not the order of
\* their first use
C4_Witness ==
    LET lines == TextLines(last.ret)
    IN  /\ last.op = "to_string"
        /\ Len(seen) = 3
        /\ Len(lines) = 3
        /\ LineVis(lines[1]) = seen[1]
        /\ LineVis(lines[2]) = seen[3]
        /\ LineVis(lines[3]) = seen[2]

\* scope.import(path, ty), with .vis(v) after it when vis is Some(v)
ScopeImportOpt(scope, path, ty, vis) ==
    IF vis = None THEN ScopeImport(scope, path, ty)
    ELSE ScopeImportVis(scope, path, ty, vis[1])

\* the entries of the table for the path and the type name
EntriesOf(imports, path, t) ==
    {e \in (DOMAIN imports) \X (1..MaxImports) :
        /\ e[2] <= Len(imports[e[1]].value)
        /\ imports[e[1]].key = path
        /\ imports[e[1]].value[e[2]].key = t}

\* C5, as claimed: a second import of a path and type under another
\* visibility, absent or not, leaves one entry for them, and its visibility
\* is the one of the second import.
C5_LaterVisibilityStored ==
    \A p \in DOMAIN root.imports :
        \A i \in DOMAIN root.imports[p].value, vis \in VisOptions :
            LET path == root.imports[p].key
                t == root.imports[p].value[i].key
                after == ScopeImportOpt(root, path, t, vis).scope.imports
            IN  vis # root.imports[p].value[i].value.vis =>
                    /\ EntriesOf(after, path, t) = {<<p, i>>}
                    /\ after[p].value[i].value.vis = vis

\* C5, amended: such a second import leaves one entry for them, in its
\* place; its visibility is the one of the second import when that import
\* sets one, and stays what it was when the second import sets none.
C5_LaterVisibilityCall ==
    \A p \in DOMAIN root.imports :
        \A i \in DOMAIN root.imports[p].value, vis \in VisOptions :
            LET path == root.imports[p].key
                t == root.imports[p].value[i].key
                was == root.imports[p].value[i].value.vis
                after == ScopeImportOpt(root, path, t, vis).scope.imports
            IN  vis # was =>
                    /\ EntriesOf(after, path, t) = {<<p, i>>}
                    /\ after[p].value[i].value.vis
                         = IF vis = None THEN was ELSE vis
                    /\ after = [root.imports EXCEPT
                                  ![p].value[i].value.vis =
                                      IF vis = None THEN was ELSE vis]

\* an import without a visibility has met an entry that has one
C5_Witness ==
    /\ last.op = "import"
    /\ root.imports[last.ret[1]].value[last.ret[2]].value.vis # None

\* C6: importing again a path, a type and a visibility that an entry of the
\* table has, the type written with or without a "::" tail, leaves the
\* table and the rendered text as they were.
C6_ReimportIdempotent ==
    \A p \in DOMAIN root.imports :
        \A i \in DOMAIN root.imports[p].value, ty \in Tys :
            LET entry == root.imports[p].value[i]
                again == ScopeImportOpt(root, root.imports[p].key, ty,
                                        entry.value.vis)
            IN  SplitFirst(ty) = entry.key =>
                    /\ again.scope = root
                    /\ again.ret = <<p, i>>
                    /\ ScopeToString(again.scope) = ScopeToString(root)

\* an import with a visibility has met an entry that was there: a later
\* type of its path follows it
C6_Witness ==
    /\ last.op = "import_vis"
    /\ NumImports(root) = 2
    /\ last.ret[2] < Len(root.imports[last.ret[1]].value)

\* the docs of a scope, rendered
DocsText(scope) ==
    IF scope.docs = None THEN <<>>
    ELSE DocsFmt(FormatterNew, scope.docs[1]).dst

\* C7: a scope has imports exactly when fmt_imports writes a statement, no
\* path of the table is without a type, and Scope::fmt writes the docs, the
\* statements, one empty line exactly when there are statements, and then
\* the items.
C7_SeparatorIffStatements ==
    last.op = "to_string" =>
        LET scope == root
            statements == FmtImports(FormatterNew, scope).dst
        IN  /\ scope.imports # <<>> <=> statements # <<>>
            /\ \A i \in DOMAIN scope.imports : scope.imports[i].value # <<>>
            /\ ScopeFmt(FormatterNew, scope).dst
                 = DocsText(scope) \o statements
                   \o (IF statements # <<>> THEN <<NL>> ELSE <<>>)
                   \o FmtItems(FormatterNew, scope.items, 1).dst

\* a scope with an import and two items was rendered: the statement, an
\* empty line, the first item
C7_Witness ==
    /\ last.op = "to_string"
    /\ root.imports # <<>>
    /\ Len(root.items) = 2
    /\ LET lines == TextLines(last.ret \o <<NL>>)
       IN  /\ StartsWith(lines[1], S_use)
           /\ lines[2] = <<>>
           /\ lines[3] # <<>>

S_mod == <<"m", "o", "d", " ">>

\* the n-th number of a set of numbers
NthOf(S, n) == CHOOSE x \in S : Cardinality({y \in S : y <= x}) = n

\* one item, rendered alone
ItemText(item) ==
    IF item.kind = "Module" THEN ModuleFmt(FormatterNew, item).dst
    ELSE item.val \o <<NL>>

\* the items from the i-th on, an empty line before each but the first
RECURSIVE ItemsJoined(_, _)
ItemsJoined(items, i) ==
    IF i > Len(items) THEN <<>>
    ELSE (IF i = 1 THEN <<>> ELSE <<NL>>) \o ItemText(items[i])
         \o ItemsJoined(items, i + 1)

\* C8: the text of a scope is what comes before the items and then the
\* items, each once, in the order of the pushes, with one empty line between
\* two of them; the text has no empty line at its start, none at its end
\* after an item and no two in a row, and as many as there are items after
\* the first (and one more after imports); its unindented module headers
\* are those of the scope's modules, in the order of the pushes.
C8_ItemsInOrder ==
    last.op = "to_string" =>
        LET scope == root
            text == ScopeFmt(FormatterNew, scope).dst
            lines == TextLines(text)
            Empty == {k \in DOMAIN lines : lines[k] = <<>>}
            Headers == {k \in DOMAIN lines :
                           /\ ~StartsWith(lines[k], <<" ">>)
                           /\ EndsWith(lines[k], <<" ", "{">>)}
            modules == SelectSeq(scope.items, LAMBDA item : item.kind = "Module")
        IN  /\ text = ScopeFmt(FormatterNew, [scope EXCEPT !.items = <<>>]).dst
                      \o ItemsJoined(scope.items, 1)
            /\ Cardinality(Empty)
                 = (IF scope.items = <<>> THEN 0 ELSE Len(scope.items) - 1)
                   + (IF scope.imports = <<>> THEN 0 ELSE 1)
            /\ 1 \notin Empty
            /\ scope.items # <<>> => Len(lines) \notin Empty
            /\ \A k \in Empty : k + 1 \notin Empty
            /\ Cardinality(Headers) = Len(modules)
            /\ \A n \in DOMAIN modules :
                  EndsWith(lines[NthOf(Headers, n)],
                           S_mod \o modules[n].name \o <<" ", "{">>)

\* two modules, n before m, and a raw item were pushed into the root scope
\* and rendered
C8_Witness ==
    /\ last.op = "to_string"
    /\ Len(root.items) = 3
    /\ root.items[1].kind = "Module" /\ root.items[1].name = S_n
    /\ root.items[2].kind = "Module" /\ root.items[2].name = S_m
    /\ root.items[3].kind = "Raw"

Lead(line) ==
    CHOOSE n \in 0..Len(line) :
        /\ \A i \in 1..n : line[i] = " "
        /\ n = Len(line) \/ line[n + 1] # " "

\* C10: in the text of the tree every line begins with one indent unit for
\* each block that is open where it is written, a closing brace with those
\* of the block's header; every block that is opened is closed; the blocks
\* are as deep as the modules are nested; and Module::fmt leaves the level
\* of the formatter as it found it.
C10_IndentationBalanced ==
    last.op = "to_string" /\ last.ret # <<>> =>
    LET lines == TextLines(last.ret \o <<NL>>)
        Opens == {k \in DOMAIN lines : EndsWith(lines[k], <<"{">>)}
        Closes == {k \in DOMAIN lines :
                      /\ EndsWith(lines[k], <<"}">>)
                      /\ Lead(lines[k]) = Len(lines[k]) - 1}
        Depth(k) == Cardinality({j \in Opens : j < k})
                    - Cardinality({j \in Closes : j <= k})
    IN  /\ \A k \in DOMAIN lines : Lead(lines[k]) = IndentUnit * Depth(k)
        /\ Cardinality(Opens) = Cardinality(Closes)
        /\ \A mp \in ModulePaths(root) :
              /\ \E k \in Opens : Depth(k) = Len(mp) - 1
              /\ \A k \in DOMAIN lines : Depth(k) <= Cardinality(ModulePaths(root))
              /\ \A level \in 0..Len(mp) :
                    ModuleFmt([FormatterNew EXCEPT !.level = level],
                              ModuleAt(root, mp)).level = level
        /\ \A k \in DOMAIN lines :
              \E mp \in ScopePaths(root) : Depth(k) = Len(mp)

\* a raw item in a module in a module was rendered, behind two indent units
C10_Witness ==
    /\ last.op = "to_string"
    /\ \E mp \in ModulePaths(root) :
          /\ Len(mp) = 2
          /\ ScopeAt(root, mp).items = <<ItemRaw(S_r)>>
    /\ \E k \in DOMAIN TextLines(last.ret \o <<NL>>) :
          TextLines(last.ret \o <<NL>>)[k] = Spaces(2 * IndentUnit) \o S_r

\* C11: a call of Scope::fmt on a sink that accepts only some writes makes
\* no write after the one that failed and returns the error exactly when a
\* write failed; the text written is then the beginning of the whole text
\* and not all of it, the sink having accepted every write it had room for;
\* without a failed write the text is the whole text.
C11_FailsOutright ==
    last.op = "fmt" =>
        LET f == last.ret
            text == ScopeFmt(FormatterNew, root).dst
        IN  /\ f.late = 0
            /\ last.outcome = "err" <=> f.err
            /\ ~f.err => f.dst = text
            /\ f.err => /\ f.room = Some(0)
                        /\ StartsWith(text, f.dst)
                        /\ f.dst # text

\* the first write inside the block of a module that holds an item failed:
\* the text ends with the opening brace and the error is returned
C11_Witness ==
    /\ last.op = "fmt"
    /\ last.outcome = "err"
    /\ root.items # <<>>
    /\ root.items[1].kind = "Module"
    /\ root.items[1].scope.items # <<>>
    /\ EndsWith(last.ret.dst, S_mod \o root.items[1].name \o <<" ", "{", NL>>)

PlacesOf(text, c) == {i \in DOMAIN text : text[i] = c}

\* C13: every key of the table is a type name without a "::" and is there
\* once under its path; the keys are the type names that were imported, each
\* cut at its first "::"; importing a type name with a "::" tail does what
\* importing its beginning does; X::Z, X::Y and X, imported one after the
\* other, make the one entry X; and the rendered text shows each key once
\* and nothing of the tails.
C13_KeyedByFirstSegment ==
    /\ \A p \in DOMAIN root.imports :
          LET tys == root.imports[p].value
          IN  /\ \A i \in DOMAIN tys : SplitFirst(tys[i].key) = tys[i].key
              /\ \A i, j \in DOMAIN tys : tys[i].key = tys[j].key => i = j
              /\ {tys[i].key : i \in DOMAIN tys}
                   = {SplitFirst(seen[k]) : k \in DOMAIN seen}
    /\ \A path \in TreePaths, ty \in KeyTys :
          /\ ScopeImport(root, path, ty) = ScopeImport(root, path, SplitFirst(ty))
          /\ LET one == ScopeImport(root, path, S_X)
                 three == ScopeImport(
                              ScopeImport(
                                  ScopeImport(root, path, S_XZ).scope,
                                  path, S_XY).scope,
                              path, S_X)
             IN  three = one
    /\ last.op = "to_string" =>
          \A p \in DOMAIN root.imports :
              /\ PlacesOf(last.ret, "Z") = {}
              /\ Cardinality(PlacesOf(last.ret, ":"))
                   = 2 * Cardinality({i \in DOMAIN TextLines(last.ret \o <<NL>>) :
                                         TextLines(last.ret \o <<NL>>)[i] # <<>>})
              /\ \A i \in DOMAIN root.imports[p].value :
                    Cardinality(PlacesOf(last.ret, root.imports[p].value[i].key[1]))
                      = 1

\* X::Z, X::Y and X were imported from the path a and the scope was rendered:
\* one entry, one statement with one X
C13_Witness ==
    /\ last.op = "to_string"
    /\ Contains(seen, S_XZ) /\ Contains(seen, S_XY) /\ Contains(seen, S_X)
    /\ ~Contains(seen, S_Y)
    /\ Len(root.imports) = 1
    /\ Len(root.imports[1].value) = 1
    /\ root.imports[1].value[1].key = S_X
    /\ root.imports[1].value[1].value.vis = None
    /\ last.ret = S_use \o S_a \o <<":", ":">> \o S_X \o <<";", NL>>

====
